---- MODULE Spec2Model ----
(***************************************************************************)
(* State-machine model of the sequencing-by-hybridization reconstruction   *)
(* engine: the alphabet reduction and overlap matcher (pure functions),    *)
(* the exact search of "exact algorithm/main.py" and the tabu moves of     *)
(* "metaheuristic/tabu.py".  Strings are sequences of one-character        *)
(* strings.  A Python call that raises is modelled by an "exc" field.      *)
(***************************************************************************)
EXTENDS Integers, Sequences, FiniteSets, TLC

VARIABLES
  component,   \* which part of the program this behaviour runs
  p_a, p_b,    \* pure functions: the two string arguments
  p_op,        \* pure functions: the function applied last
  p_out,       \* pure functions: its result, [exc, val, n]
  rd,          \* the ReconstructionData: [start, length, WS_cells, RY_cells]
  ex_pc,       \* exact search: where the program is
  ex_ret,      \* exact search: what the last call of reconstruct returned
  aov,         \* exact search: the locals of add_ongoing_vertices_to_list
  t_ws, t_ry,  \* tabu: the caller's WS and RY path states
  t_nb,        \* tabu: what the last move returned, () or (ws, ry)
  t_move,      \* tabu: the operation called last
  t_exc,       \* tabu: the exception it ended with, "diverges" for a hang
  tabu_list_ws, tabu_list_ry,  \* tabu: the two tabu lists
  add_log,     \* tabu: the arguments of the calls of Tabu.add so far
  neighbours,  \* generate_neighbours: the neighbours collected
  ws_paths_set,\* generate_neighbours: the WS paths seen
  gn_n,        \* generate_neighbours: iterations done
  fs_pc,       \* find_solution: where it is
  fs_i,        \* find_solution: neighbours looked at
  kept         \* find_solution: the neighbours neither `continue` skipped

pure_vars == <<p_a, p_b, p_op, p_out>>
exact_vars == <<ex_pc, ex_ret, aov>>
tabu_vars == <<t_ws, t_ry, t_nb, t_move, t_exc, tabu_list_ws, tabu_list_ry, add_log,
               neighbours, ws_paths_set, gn_n, fs_pc, fs_i, kept>>
vars == <<component, p_a, p_b, p_op, p_out, rd, ex_pc, ex_ret, aov,
          t_ws, t_ry, t_nb, t_move, t_exc, tabu_list_ws, tabu_list_ry, add_log,
          neighbours, ws_paths_set, gn_n, fs_pc, fs_i, kept>>

\* ------------------------------------------------------------- bounds
MaxOligo == 3
MaxStart == 2
MaxExtend == 6
MaxPath == 4
MaxAdds == 2
tabu_size == 1
number_of_neighbours == 2

\* ------------------------------------------------------------ strings
Nucleotides == {"A", "C", "G", "T"}

Min(x, y) == IF x <= y THEN x ELSE y
Max(x, y) == IF x >= y THEN x ELSE y

\* s[i:] of Python for 0 <= i (0-based start)
PyFrom(s, i) == IF i >= Len(s) THEN <<>> ELSE SubSeq(s, i + 1, Len(s))

\* s[:n] of Python for 0 <= n
PyTo(s, n) == SubSeq(s, 1, Min(n, Len(s)))

\* s[n:] of Python for n < 0
PyFromNeg(s, n) == PyFrom(s, Max(0, Len(s) + n))

\* all strings over alphabet S of length lo..hi
StringsOver(S, lo, hi) == UNION {[1..n -> S] : n \in lo..hi}

NoExc == ""
Ok(v) == [exc |-> NoExc, val |-> v, n |-> 0]
OkInt(k) == [exc |-> NoExc, val |-> <<>>, n |-> k]
Raise(e) == [exc |-> e, val |-> <<>>, n |-> 0]

\* -------------------------------------------------- alphabet reduction
nucleotide_to_weak_strong ==
  [x \in Nucleotides |-> IF x \in {"A", "T"} THEN "W" ELSE "S"]

nucleotide_to_purine_pyrimidine ==
  [x \in Nucleotides |-> IF x \in {"A", "G"} THEN "R" ELSE "Y"]

\* self.dict_convertion of a WSRY of the given space
dict_convertion(space) ==
  IF space = "WS" THEN nucleotide_to_weak_strong
  ELSE nucleotide_to_purine_pyrimidine

\* the loop of convert_oligo over the first n characters
RECURSIVE convert_prefix(_, _, _)
convert_prefix(space, oligo, n) ==
  IF n = 0 THEN <<>>
  ELSE Append(convert_prefix(space, oligo, n - 1), dict_convertion(space)[oligo[n]])

\* WSRY.convert_oligo: every character but the last through the dictionary,
\* the last one verbatim.  oligo[-1] of an empty string raises IndexError, a
\* character outside the dictionary raises KeyError.
convert_oligo(space, oligo) ==
  IF \E i \in 1..(Len(oligo) - 1) : oligo[i] \notin DOMAIN dict_convertion(space)
    THEN Raise("KeyError")
  ELSE IF Len(oligo) = 0 THEN Raise("IndexError")
  ELSE Ok(convert_prefix(space, oligo, Len(oligo) - 1) \o <<oligo[Len(oligo)]>>)

\* one iteration of the loop of connect_WS_RY: the if/elif chain has no else,
\* so any other pair add_log nothing
connect_pair(nucleotide_WS, nucleotide_RY) ==
  CASE nucleotide_WS = "S" /\ nucleotide_RY = "R" -> <<"G">>
    [] nucleotide_WS = "S" /\ nucleotide_RY = "Y" -> <<"C">>
    [] nucleotide_WS = "W" /\ nucleotide_RY = "R" -> <<"A">>
    [] nucleotide_WS = "W" /\ nucleotide_RY = "Y" -> <<"T">>
    [] OTHER -> <<>>

RECURSIVE connect_from(_, _, _)
connect_from(oligo_WS, oligo_RY, i) ==
  IF i > Min(Len(oligo_WS), Len(oligo_RY)) THEN <<>>
  ELSE connect_pair(oligo_WS[i], oligo_RY[i])
         \o connect_from(oligo_WS, oligo_RY, i + 1)

\* WSRY.connect_WS_RY: zip stops at the shorter argument
connect_WS_RY(oligo_WS, oligo_RY) == connect_from(oligo_WS, oligo_RY, 1)

\* ------------------------------------------------------ overlap matcher
\* check_overlap of main.py: max_overlap is never assigned after its
\* initialisation, so the match found returns 0 as well
check_overlap(oligo1, oligo2, probe) ==
  LET max_overlap == 0 IN
  IF \E offset \in 1..(probe - 1) :
       PyFrom(oligo1, probe - offset) = PyTo(oligo2, offset)
    THEN max_overlap
    ELSE 0

\* overlap(a, b) of the Overlap Matcher as tabu.py imports it from common
\* (that module is not among the sources): the largest k,
\* 1 <= k < min(len(a), len(b)), with the last k characters of a equal to the
\* first k characters of b, and 0 when there is none
overlap(a, b) ==
  LET ks == {k \in 1..(Min(Len(a), Len(b)) - 1) :
               SubSeq(a, Len(a) - k + 1, Len(a)) = SubSeq(b, 1, k)}
  IN IF ks = {} THEN 0 ELSE CHOOSE k \in ks : \A j \in ks : j <= k

\* ------------------------------------------------------------ WSRY state
Last(s) == s[Len(s)]
Range(s) == {s[i] : i \in 1..Len(s)}

\* WSRY.__init__: the converted start oligo is the whole path, every probe
\* cell is unused and the converted start oligo is used
WSRY(space, oligo, cells) ==
  LET start_converted == convert_oligo(space, oligo).val IN
  [space |-> space,
   start_converted |-> start_converted,
   cells_dict |-> [c \in Range(cells) \cup {start_converted} |->
                     c = start_converted],
   path |-> <<start_converted>>,
   depth |-> <<0>>]

NoWSRY ==
  [space |-> "", start_converted |-> <<>>, cells_dict |-> [c \in {} |-> FALSE],
   path |-> <<>>, depth |-> <<>>]

\* the tabu search is not running
TabuIdle ==
  /\ t_ws = NoWSRY /\ t_ry = NoWSRY /\ t_nb = <<>>
  /\ t_move = "off" /\ t_exc = NoExc
  /\ tabu_list_ws = <<>> /\ tabu_list_ry = <<>> /\ add_log = <<>>
  /\ neighbours = <<>> /\ ws_paths_set = {} /\ gn_n = 0
  /\ fs_pc = "off" /\ fs_i = 0 /\ kept = <<>>

\* ---------------------------------------------------------- exact search
\* search_overlapings: the dictionary it fills, as the sequence of its items
\* in insertion order.  A cell enters it when it is unused and `not
\* max_overlap`, that is when its overlap is 0.
search_overlapings(oligo, cells, cells_dict) ==
  LET taken(cell) ==
        ~cells_dict[cell] /\ check_overlap(oligo, cell, Len(cell)) = 0
      sel == SelectSeq(cells, taken)
  IN [i \in 1..Len(sel) |->
        [cell |-> sel[i], overlap |-> check_overlap(oligo, sel[i], Len(sel[i]))]]

\* start_converted[:-1] + dictionary[start_converted[-1]]
flip_last(w) ==
  LET sc == w.start_converted IN
  [w EXCEPT !.start_converted =
     Append(SubSeq(sc, 1, Len(sc) - 1), dict_convertion(w.space)[Last(sc)])]

Returned(kind, is_reconstructed, reconstructed_dna_length, reconstructed_dna, s_space_empty, ws, ry, ows, ory) ==
  [kind |-> kind, is_reconstructed |-> is_reconstructed,
   reconstructed_dna_length |-> reconstructed_dna_length,
   reconstructed_dna |-> reconstructed_dna, s_space_empty |-> s_space_empty,
   ws |-> ws, ry |-> ry, overlapings_ws |-> ows, overlapings_ry |-> ory]

NoReturn == Returned("", FALSE, 0, <<>>, FALSE, NoWSRY, NoWSRY, <<>>, <<>>)

\* reconstruct.  kind is what the call hands back: "tuple6" (the two returns
\* of six values), "tuple7" (the return of seven values when a probe has no
\* candidate), "None" (control falls off the end after line 256) or "raise"
\* (the dictionary lookup of an already reduced last character).
reconstruct(is_reconstructed, reconstructed_dna_length, reconstructed_dna, s_space_empty, ws, ry, length) ==
  IF is_reconstructed
    THEN Returned("tuple6", is_reconstructed, reconstructed_dna_length,
                  reconstructed_dna, s_space_empty, ws, ry, <<>>, <<>>)
  ELSE IF length = reconstructed_dna_length
    THEN Returned("tuple6", TRUE, reconstructed_dna_length,
                  connect_WS_RY(ws.start_converted, ry.start_converted),
                  s_space_empty, ws, ry, <<>>, <<>>)
  ELSE IF Last(ws.start_converted) \notin Nucleotides
          \/ Last(ry.start_converted) \notin Nucleotides
    THEN Returned("raise", is_reconstructed, reconstructed_dna_length,
                  reconstructed_dna, s_space_empty, ws, ry, <<>>, <<>>)
  ELSE
    LET _ws == flip_last(ws)
        _ry == flip_last(ry)
        overlapings_ws ==
          search_overlapings(_ws.start_converted, rd.WS_cells, _ws.cells_dict)
        overlapings_ry ==
          search_overlapings(_ry.start_converted, rd.RY_cells, _ry.cells_dict)
    IN IF overlapings_ry = <<>> \/ overlapings_ws = <<>>
         THEN Returned("tuple7", TRUE, reconstructed_dna_length,
                       reconstructed_dna, s_space_empty, _ws, _ry,
                       overlapings_ws, overlapings_ry)
         ELSE Returned("None", is_reconstructed, reconstructed_dna_length,
                       reconstructed_dna, s_space_empty, _ws, _ry,
                       overlapings_ws, overlapings_ry)

\* max(overlapings.values())
max_overlap_of(overlapings) ==
  CHOOSE m \in {overlapings[i].overlap : i \in 1..Len(overlapings)} :
    \A i \in 1..Len(overlapings) : overlapings[i].overlap <= m

\* the inner loop's test without its length clause
branch_allowed_any_length(overlap_ws, overlap_ry, max_overlap_ry, cell_ws, cell_ry, length, reconstructed_dna_length) ==
  ~(\/ overlap_ry # max_overlap_ry
    \/ overlap_ws # overlap_ry
    \/ Last(cell_ry) # Last(cell_ws))

\* the negation of the `continue` condition of the inner loop
branch_allowed(overlap_ws, overlap_ry, max_overlap_ry, cell_ws, cell_ry, length, reconstructed_dna_length) ==
  ~(\/ overlap_ry # max_overlap_ry
    \/ overlap_ws # overlap_ry
    \/ Last(cell_ry) # Last(cell_ws)
    \/ length < reconstructed_dna_length + (Len(cell_ws) - overlap_ws))

\* cells_dict[cell] = True
mark_used(cells_dict, cell) ==
  [c \in DOMAIN cells_dict \cup {cell} |-> IF c = cell THEN TRUE ELSE cells_dict[c]]

\* the extension without line 153 (157): the overlap is not recorded
extend_path_only(w, cell, overlap_len) ==
  [w EXCEPT !.path = Append(@, cell),
            !.start_converted = @ \o PyFrom(cell, overlap_len),
            !.cells_dict = mark_used(@, cell)]

\* lines 152-155 (156-159 for RY): append the cell, its overlap, the part of
\* the cell past the overlap, and mark the cell used
extend(w, cell, overlap_len) ==
  [w EXCEPT !.path = Append(@, cell),
            !.depth = Append(@, overlap_len),
            !.start_converted = @ \o PyFrom(cell, overlap_len),
            !.cells_dict = mark_used(@, cell)]

NoAov ==
  [ws |-> NoWSRY, ry |-> NoWSRY, overlapings_ws |-> <<>>, overlapings_ry |-> <<>>,
   _ws |-> NoWSRY, _ry |-> NoWSRY, is_reconstructed |-> FALSE,
   reconstructed_dna_length |-> 0, reconstructed_dna |-> <<>>,
   s_space_empty |-> FALSE, i |-> 0, j |-> 0, branches |-> 0, exc |-> NoExc]

\* ------------------------------------------------------ exact-search inputs
ACG == <<"A", "C", "G">>
ACGT == <<"A", "C", "G", "T">>
ExactStarts == StringsOver(Nucleotides, 1, MaxStart) \cup {ACG, ACGT}

WSPool == << <<"S", "S", "T">>, <<"S", "W", "T">> >>
RYPool == << <<"Y", "R", "T">>, <<"R", "Y", "T">>, <<"R", "Y", "C">> >>
Prefixes(s) == {SubSeq(s, 1, n) : n \in 0..Len(s)}

Experiments ==
  {[start |-> st, length |-> Len(st) + e, WS_cells |-> wc, RY_cells |-> rc] :
     st \in ExactStarts, e \in 0..MaxExtend,
     wc \in Prefixes(WSPool), rc \in Prefixes(RYPool)}

InitExact ==
  /\ component = "exact"
  /\ p_a = <<>> /\ p_b = <<>> /\ p_op = "off" /\ p_out = Ok(<<>>)
  /\ rd \in Experiments
  /\ ex_pc = "main"
  /\ ex_ret = NoReturn
  /\ aov = NoAov
  /\ TabuIdle

\* main: build both WSRY states and call reconstruct
main ==
  /\ component = "exact" /\ ex_pc = "main"
  /\ LET ws == WSRY("WS", rd.start, rd.WS_cells)
         ry == WSRY("RY", rd.start, rd.RY_cells)
     IN ex_ret' = reconstruct(FALSE, Len(ws.start_converted), <<>>, FALSE,
                              ws, ry, rd.length)
  /\ ex_pc' = "returned"
  /\ UNCHANGED <<component, pure_vars, rd, aov, tabu_vars>>

\* add_ongoing_vertices_to_list entered with the state and the overlap tables
\* reconstruct has at line 256; lines 122-137
add_ongoing_vertices_to_list ==
  /\ component = "exact" /\ ex_pc = "returned" /\ ex_ret.kind = "None"
  /\ \E is_reconstructed \in BOOLEAN :
       IF is_reconstructed
         THEN /\ ex_pc' = "aov_returned"
              /\ aov' = [NoAov EXCEPT !.ws = ex_ret.ws, !.ry = ex_ret.ry,
                                      !._ws = ex_ret.ws, !._ry = ex_ret.ry,
                                      !.is_reconstructed = TRUE,
                                      !.reconstructed_dna_length =
                                         ex_ret.reconstructed_dna_length,
                                      !.s_space_empty = TRUE]
         ELSE /\ ex_pc' = "aov"
              /\ aov' = [NoAov EXCEPT !.ws = ex_ret.ws, !.ry = ex_ret.ry,
                                      !._ws = ex_ret.ws, !._ry = ex_ret.ry,
                                      !.overlapings_ws = ex_ret.overlapings_ws,
                                      !.overlapings_ry = ex_ret.overlapings_ry,
                                      !.reconstructed_dna_length =
                                         ex_ret.reconstructed_dna_length,
                                      !.i = 1, !.j = 1]
  /\ UNCHANGED <<component, pure_vars, rd, ex_ret, tabu_vars>>

AovPairAllowed ==
  /\ aov.i <= Len(aov.overlapings_ws) /\ aov.j <= Len(aov.overlapings_ry)
  /\ aov.overlapings_ws[aov.i].overlap = max_overlap_of(aov.overlapings_ws)
  /\ branch_allowed(aov.overlapings_ws[aov.i].overlap,
                    aov.overlapings_ry[aov.j].overlap,
                    max_overlap_of(aov.overlapings_ry),
                    aov.overlapings_ws[aov.i].cell,
                    aov.overlapings_ry[aov.j].cell,
                    rd.length, aov.reconstructed_dna_length)

\* one pass of the inner loop that hits `continue` (lines 138-150), or the
\* end of the inner loop
aov_skip ==
  /\ component = "exact" /\ ex_pc = "aov"
  /\ aov.i <= Len(aov.overlapings_ws)
  /\ ~AovPairAllowed
  /\ aov' = IF aov.j >= Len(aov.overlapings_ry)
               \/ aov.overlapings_ws[aov.i].overlap
                    # max_overlap_of(aov.overlapings_ws)
              THEN [aov EXCEPT !.i = @ + 1, !.j = 1]
              ELSE [aov EXCEPT !.j = @ + 1]
  /\ UNCHANGED <<component, pure_vars, rd, ex_pc, ex_ret, tabu_vars>>

\* one pass of the inner loop that extends (lines 151-179): the seven-name
\* unpacking raises unless reconstruct returned seven values
aov_extend ==
  /\ component = "exact" /\ ex_pc = "aov"
  /\ AovPairAllowed
  /\ LET cell_ws == aov.overlapings_ws[aov.i].cell
         cell_ry == aov.overlapings_ry[aov.j].cell
         overlap_ws == aov.overlapings_ws[aov.i].overlap
         overlap_ry == aov.overlapings_ry[aov.j].overlap
         len == aov.reconstructed_dna_length + (Len(cell_ws) - overlap_ws)
         ws1 == extend(aov._ws, cell_ws, overlap_ws)
         ry1 == extend(aov._ry, cell_ry, overlap_ry)
         r == reconstruct(aov.is_reconstructed, len, aov.reconstructed_dna,
                          aov.s_space_empty, ws1, ry1, rd.length)
         nxt == IF aov.j >= Len(aov.overlapings_ry)
                  THEN [i |-> aov.i + 1, j |-> 1]
                  ELSE [i |-> aov.i, j |-> aov.j + 1]
     IN IF r.kind = "tuple7"
          THEN /\ aov' = [aov EXCEPT !._ws = r.ws, !._ry = r.ry,
                                     !.is_reconstructed = r.is_reconstructed,
                                     !.reconstructed_dna_length =
                                        r.reconstructed_dna_length,
                                     !.reconstructed_dna = r.reconstructed_dna,
                                     !.s_space_empty = r.s_space_empty,
                                     !.i = nxt.i, !.j = nxt.j,
                                     !.branches = @ + 1]
               /\ ex_pc' = "aov"
          ELSE /\ aov' = [aov EXCEPT !._ws = ws1, !._ry = ry1,
                                     !.reconstructed_dna_length = len,
                                     !.branches = @ + 1,
                                     !.exc = IF r.kind = "tuple6"
                                               THEN "ValueError"
                                             ELSE IF r.kind = "None"
                                               THEN "TypeError"
                                             ELSE "KeyError"]
               /\ ex_pc' = "raised"
  /\ UNCHANGED <<component, pure_vars, rd, ex_ret, tabu_vars>>

\* after the loops (lines 180-189): return reconstruct(...)
aov_return ==
  /\ component = "exact" /\ ex_pc = "aov"
  /\ aov.i > Len(aov.overlapings_ws)
  /\ LET r == reconstruct(aov.is_reconstructed, aov.reconstructed_dna_length,
                          aov.reconstructed_dna, TRUE, aov._ws, aov._ry,
                          rd.length)
     IN /\ ex_ret' = r
        /\ aov' = [aov EXCEPT !.s_space_empty = TRUE]
        /\ ex_pc' = IF r.kind = "raise" THEN "raised" ELSE "aov_returned"
  /\ UNCHANGED <<component, pure_vars, rd, tabu_vars>>

NextExact ==
  \/ main
  \/ add_ongoing_vertices_to_list
  \/ aov_skip
  \/ aov_extend
  \/ aov_return

\* ------------------------------------------------------------ tabu: lists
\* Python list operations with 0-based positions
At(s, i) == s[i + 1]
Insert(s, i, x) == SubSeq(s, 1, i) \o <<x>> \o SubSeq(s, i + 1, Len(s))
Pop(s, i) == SubSeq(s, 1, i) \o SubSeq(s, i + 2, Len(s))

\* --------------------------------------------- tabu: WSRY of module wsry
\* perfect_overlap: oligo length - 1
perfect_overlap(w) == Len(w.path[1]) - 1

\* an oligo with its verbatim last nucleotide classified in the path's space
reduced_tail(space, oligo) ==
  IF Last(oligo) \in Nucleotides
    THEN Append(SubSeq(oligo, 1, Len(oligo) - 1), dict_convertion(space)[Last(oligo)])
    ELSE oligo

RECURSIVE depth_upto(_, _, _)
depth_upto(space, path, n) ==
  IF n <= 1 THEN <<0>>
  ELSE Append(depth_upto(space, path, n - 1),
              overlap(reduced_tail(space, path[n - 1]), path[n]))

\* update_depth: depth[0] is 0 and every other depth[i] is recomputed from
\* the adjacent pair path[i-1], path[i] with the Overlap Matcher
update_depth(w) == [w EXCEPT !.depth = depth_upto(w.space, w.path, Len(w.path))]

\* the probe a WSRY state was built from, in probe order
probe_cells(w) == IF w.space = "WS" THEN rd.WS_cells ELSE rd.RY_cells

\* not_used_oligos: the probe's cells that are not marked used
not_used_oligos(w) ==
  LET free(cell) == ~w.cells_dict[cell] IN SelectSeq(probe_cells(w), free)

\* ------------------------------------------------------- tabu: the memory
\* Tabu.is_tabu
is_tabu(move, list_ws, list_ry) == move \in Range(list_ws) \/ move \in Range(list_ry)

\* what a move hands back: ret is () or the pair (ws, ry); in_ws, in_ry are
\* the caller's two objects after the call; exc names an exception, or
\* "diverges" for a loop that cannot end
Outcome(ret, in_ws, in_ry, exc) ==
  [ret |-> ret, in_ws |-> in_ws, in_ry |-> in_ry, exc |-> exc]

\* the INDEX OUTSIDE CLUSTER test for an insertion position idx
inside_cluster_insert(w, idx) ==
  /\ idx # Len(w.path)
  /\ At(w.depth, idx - 1) = perfect_overlap(w)
  /\ At(w.depth, idx) = perfect_overlap(w)

\* the INDEX OUTSIDE CLUSTER test for the position idx of an oligo
inside_cluster_oligo(w, idx) ==
  /\ idx # Len(w.path) - 1
  /\ At(w.depth, idx) = perfect_overlap(w)
  /\ At(w.depth, idx + 1) = perfect_overlap(w)

\* ---------------------------------------------------- tabu: insert oligo
\* lines 73-81
possible_idxs(ws) ==
  LET outside(idx) == ~inside_cluster_insert(ws, idx)
      all == [i \in 1..Len(ws.path) |-> i]
  IN SelectSeq(all, outside)

\* lines 90-95: the copies with both oligos inserted and depth recomputed
inserted(ws, ry, tmp_oligo_ws, tmp_oligo_ry, idx_to_insert) ==
  <<update_depth([ws EXCEPT !.path = Insert(@, idx_to_insert, tmp_oligo_ws)]),
    update_depth([ry EXCEPT !.path = Insert(@, idx_to_insert, tmp_oligo_ry)])>>

\* line 98: the candidate is returned unless the depth arrays differ
insert_accepted(new_ws, new_ry) == new_ws.depth = new_ry.depth

\* lines 87-100 for one tmp_oligo_ws: the (tmp_oligo_ry, idx_to_insert)
\* combinations in loop order that are returned if reached
insert_fits(ws, ry, tmp_oligo_ws, oligos_ry) ==
  LET idxs == possible_idxs(ws) IN
  {c \in (1..Len(oligos_ry)) \X (1..Len(idxs)) :
     /\ Last(tmp_oligo_ws) = Last(oligos_ry[c[1]])
     /\ LET n == inserted(ws, ry, tmp_oligo_ws, oligos_ry[c[1]], idxs[c[2]])
        IN insert_accepted(n[1], n[2])}

\* the first of them in loop order
first_fit(fits) ==
  CHOOSE c \in fits :
    \A d \in fits : c[1] < d[1] \/ (c[1] = d[1] /\ c[2] <= d[2])

\* the caller's objects after generate_neighbour_insert_oligo: lines 90-91
\* work on deep copies
insert_oligo_inputs(ws, ry, local_ws, local_ry) == <<ws, ry>>

\* generate_neighbour_insert_oligo: the outcomes over the shuffles of
\* not_used_not_tabu_oligos_ws.  The first oligo of the shuffled list that
\* has a fit decides the result.
generate_neighbour_insert_oligo(ws, ry, oligos_ws, oligos_ry) ==
  LET fitting == {o \in Range(oligos_ws) : insert_fits(ws, ry, o, oligos_ry) # {}}
      idxs == possible_idxs(ws)
      result(o) ==
        LET c == first_fit(insert_fits(ws, ry, o, oligos_ry))
            n == inserted(ws, ry, o, oligos_ry[c[1]], idxs[c[2]])
            io == insert_oligo_inputs(ws, ry, n[1], n[2])
        IN Outcome(n, io[1], io[2], NoExc)
  IN IF fitting = {} THEN {Outcome(<<>>, ws, ry, NoExc)}
     ELSE {result(o) : o \in fitting}

\* ---------------------------------------------------- tabu: delete oligo
\* the same loop drawing from random.randint(0, len - 1)
random_oligo_idxs_from_zero(ws) ==
  {idx \in 0..(Len(ws.path) - 1) : ~inside_cluster_oligo(ws, idx)}

\* the positions the `while True` loop of lines 113-123 (143-154) can leave
\* with: random.randint(1, len - 1) outside a cluster interior
random_oligo_idxs(ws) ==
  {idx \in 1..(Len(ws.path) - 1) : ~inside_cluster_oligo(ws, idx)}

\* lines 128-133: the copies with the oligo removed and depth recomputed
deleted(ws, ry, idx) ==
  <<update_depth([ws EXCEPT !.path = Pop(@, idx)]),
    update_depth([ry EXCEPT !.path = Pop(@, idx)])>>

\* line 135
delete_accepted(ws, ry) == ws.depth = ry.depth

\* the caller's objects after generate_neighbour_delete_oligo: lines 128-129
\* rebind the local names to deep copies before anything is popped
delete_oligo_inputs(ws, ry, local_ws, local_ry) == <<ws, ry>>

\* generate_neighbour_delete_oligo: random.randint(1, 0) raises ValueError
generate_neighbour_delete_oligo(ws, ry, skip_tabu_check, list_ws, list_ry) ==
  IF Len(ws.path) - 1 < 1 THEN {Outcome(<<>>, ws, ry, "ValueError")}
  ELSE
    {LET d == deleted(ws, ry, idx)
         io == delete_oligo_inputs(ws, ry, d[1], d[2])
     IN IF ~is_tabu(At(ws.path, idx), list_ws, list_ry) \/ skip_tabu_check
          THEN IF delete_accepted(d[1], d[2])
                 THEN Outcome(d, io[1], io[2], NoExc)
                 ELSE Outcome(<<>>, io[1], io[2], NoExc)
          ELSE Outcome(<<>>, ws, ry, NoExc)
     : idx \in random_oligo_idxs(ws)}

\* ----------------------------------------------------- tabu: shift oligo
\* lines 179-182: the popped copies with the oligo put back at i
reinserted(ws, ry, oligo_ws, oligo_ry, i) ==
  <<update_depth([ws EXCEPT !.path = Insert(@, i, oligo_ws)]),
    update_depth([ry EXCEPT !.path = Insert(@, i, oligo_ry)])>>

\* line 184
shift_accepted(ws, ry) == ws.depth = ry.depth

\* the caller's objects after generate_neighbour_shift_oligo: lines 159-160
shift_oligo_inputs(ws, ry, local_ws, local_ry) == <<ws, ry>>

\* lines 159-188 for the chosen position: the outcomes over the shuffles of
\* idxs.  When no position fits, the locals are left with the oligo popped
\* and the depth of the last attempt.
shift_oligo_at(ws, ry, random_oligo_idx) ==
  LET oligo_ws == At(ws.path, random_oligo_idx)
      oligo_ry == At(ry.path, random_oligo_idx)
      d == deleted(ws, ry, random_oligo_idx)
      idxs == Range(possible_idxs(d[1]))
      try(i) == reinserted(d[1], d[2], oligo_ws, oligo_ry, i)
      fits == {i \in idxs : shift_accepted(try(i)[1], try(i)[2])}
      inputs(lw, lr) == shift_oligo_inputs(ws, ry, lw, lr)
  IN IF fits # {}
       THEN {Outcome(try(i), inputs(try(i)[1], try(i)[2])[1],
                     inputs(try(i)[1], try(i)[2])[2], NoExc) : i \in fits}
       ELSE {LET lw == [d[1] EXCEPT !.depth = try(i)[1].depth]
                 lr == [d[2] EXCEPT !.depth = try(i)[2].depth]
             IN Outcome(<<>>, inputs(lw, lr)[1], inputs(lw, lr)[2], NoExc)
             : i \in idxs}

\* generate_neighbour_shift_oligo
generate_neighbour_shift_oligo(ws, ry, list_ws, list_ry) ==
  IF Len(ws.path) - 1 < 1 THEN {Outcome(<<>>, ws, ry, "ValueError")}
  ELSE UNION
    {IF ~is_tabu(At(ws.path, idx), list_ws, list_ry)
       THEN shift_oligo_at(ws, ry, idx)
       ELSE {Outcome(<<>>, ws, ry, NoExc)}
     : idx \in random_oligo_idxs(ws)}

\* -------------------------------------------------- tabu: cluster moves
\* the loop of lines 198-206 (232-240) from position i on
RECURSIVE cluster_scan(_, _, _)
cluster_scan(ws, i, begin_of_cluster) ==
  IF i >= Len(ws.path) - 1 THEN <<>>
  ELSE IF At(ws.depth, i) = perfect_overlap(ws)
    THEN IF ~begin_of_cluster /\ At(ws.depth, i + 1) = perfect_overlap(ws)
           THEN <<i>> \o cluster_scan(ws, i + 1, TRUE)
           ELSE cluster_scan(ws, i + 1, begin_of_cluster)
    ELSE cluster_scan(ws, i + 1, FALSE)

cluster_indexes(ws) == cluster_scan(ws, 1, FALSE)

\* how often the loop of lines 210-217 (247-254) runs: it pops at
\* random_cluster_idx while that position exists and holds perfect_overlap
\* the loop with `if` where the code has `while`: one pop
one_pop(depth, idx, perfect) == 1

RECURSIVE run_length(_, _, _)
run_length(depth, idx, perfect) ==
  IF idx < Len(depth) /\ At(depth, idx) = perfect
    THEN 1 + run_length(Pop(depth, idx), idx, perfect)
    ELSE 0

\* n elements popped at idx
PopN(s, idx, n) == SubSeq(s, 1, idx) \o SubSeq(s, idx + n + 1, Len(s))

\* lines 210-217: path and depth of both copies after the loop
cluster_removed(w, idx, n) ==
  [w EXCEPT !.path = PopN(@, idx, n), !.depth = PopN(@, idx, n)]

\* line 221
delete_cluster_accepted(ws, ry) == ws.depth = ry.depth

\* the same without the deep copies: the pops and update_depth hit the
\* caller's objects
delete_cluster_in_place(ws, ry, local_ws, local_ry) == <<local_ws, local_ry>>

\* the caller's objects after generate_neigbour_delete_cluster: lines 195-196
delete_cluster_inputs(ws, ry, local_ws, local_ry) == <<ws, ry>>

\* generate_neigbour_delete_cluster
generate_neigbour_delete_cluster(ws, ry) ==
  IF cluster_indexes(ws) = <<>>
    THEN {Outcome(<<>>, delete_cluster_inputs(ws, ry, ws, ry)[1],
                  delete_cluster_inputs(ws, ry, ws, ry)[2], NoExc)}
  ELSE
    {LET n == run_length(ws.depth, random_cluster_idx, perfect_overlap(ws))
         lw == update_depth(cluster_removed(ws, random_cluster_idx, n))
         lr == update_depth(cluster_removed(ry, random_cluster_idx, n))
         io == delete_cluster_inputs(ws, ry, lw, lr)
     IN IF delete_cluster_accepted(lw, lr)
          THEN Outcome(<<lw, lr>>, io[1], io[2], NoExc)
          ELSE Outcome(<<>>, io[1], io[2], NoExc)
     : random_cluster_idx \in Range(cluster_indexes(ws))}

\* the loop of line 260 run upwards: every member lands at idx, so the block
\* ends up last member first
InsertBlockAscending(s, idx, block) ==
  SubSeq(s, 1, idx) \o [k \in 1..Len(block) |-> block[Len(block) + 1 - k]]
                   \o SubSeq(s, idx + 1, Len(s))

\* lines 260-262: the block put back at idx, first member first
InsertBlock(s, idx, block) == SubSeq(s, 1, idx) \o block \o SubSeq(s, idx + 1, Len(s))

\* the shifted pair returned without the depth comparison
shift_cluster_unchecked(ws, ry) == TRUE

\* line 266
shift_cluster_accepted(ws, ry) == ws.depth = ry.depth

\* the caller's objects after generate_neighbour_shift_cluster: lines 230-231
shift_cluster_inputs(ws, ry, local_ws, local_ry) == <<ws, ry>>

\* lines 246-267 for the chosen cluster; the loop of lines 256-259 cannot
\* end when no position other than random_cluster_idx exists
shift_cluster_at(ws, ry, random_cluster_idx) ==
  LET n == run_length(ws.depth, random_cluster_idx, perfect_overlap(ws))
      cluster_to_shift_ws == SubSeq(ws.path, random_cluster_idx + 1, random_cluster_idx + n)
      cluster_to_shift_ry == SubSeq(ry.path, random_cluster_idx + 1, random_cluster_idx + n)
      rw == cluster_removed(ws, random_cluster_idx, n)
      rr == cluster_removed(ry, random_cluster_idx, n)
      idxs == (1..Len(rw.path)) \ {random_cluster_idx}
      lw(i) == update_depth([rw EXCEPT !.path = InsertBlock(@, i, cluster_to_shift_ws)])
      lr(i) == update_depth([rr EXCEPT !.path = InsertBlock(@, i, cluster_to_shift_ry)])
      inputs(a, b) == shift_cluster_inputs(ws, ry, a, b)
  IN IF idxs = {}
       THEN {Outcome(<<>>, inputs(rw, rr)[1], inputs(rw, rr)[2], "diverges")}
       ELSE {IF shift_cluster_accepted(lw(i), lr(i))
               THEN Outcome(<<lw(i), lr(i)>>, inputs(lw(i), lr(i))[1],
                            inputs(lw(i), lr(i))[2], NoExc)
               ELSE Outcome(<<>>, inputs(lw(i), lr(i))[1],
                            inputs(lw(i), lr(i))[2], NoExc)
             : i \in idxs}

\* generate_neighbour_shift_cluster
generate_neighbour_shift_cluster(ws, ry) ==
  IF cluster_indexes(ws) = <<>>
    THEN {Outcome(<<>>, shift_cluster_inputs(ws, ry, ws, ry)[1],
                  shift_cluster_inputs(ws, ry, ws, ry)[2], NoExc)}
  ELSE UNION {shift_cluster_at(ws, ry, idx) : idx \in Range(cluster_indexes(ws))}

\* ------------------------------------------------------ tabu: rendering
\* WSRY.connect_ws_ry of module wsry, as main.py defines connect_WS_RY
connect_ws_ry(oligo_ws, oligo_ry) == connect_WS_RY(oligo_ws, oligo_ry)

RECURSIVE reconstruct_dna_upto(_, _, _)
reconstruct_dna_upto(ws, ry, n) ==
  IF n = 0 THEN <<>>
  ELSE reconstruct_dna_upto(ws, ry, n - 1)
         \o PyFromNeg(connect_ws_ry(ws.path[n], ry.path[n]),
                      ws.depth[n] - Len(ws.path[n]))

\* Tabu.reconstruct_dna: zip stops at the shortest of ws.path, ry.path, ws.depth
reconstruct_dna(ws, ry) ==
  reconstruct_dna_upto(ws, ry, Min(Min(Len(ws.path), Len(ry.path)), Len(ws.depth)))

\* ------------------------------------------------------- tabu: the runs
\* the probes of the spectrum {CGT, GTT, GTC} of ACGTT.. / ACGTC
TabuWS == << <<"S", "S", "T">>, <<"S", "W", "T">>, <<"S", "W", "C">> >>
TabuRY == << <<"Y", "R", "T">>, <<"R", "Y", "T">>, <<"R", "Y", "C">> >>
TabuTargets == {6, 7}

\* the probes of the spectrum {CGG, GTT, TTC, TCG} of ACGGTTCG, GGT missing
TabuWS4 == << <<"S", "S", "G">>, <<"S", "W", "T">>, <<"W", "W", "C">>, <<"W", "S", "G">> >>
TabuRY4 == << <<"Y", "R", "G">>, <<"R", "Y", "T">>, <<"Y", "Y", "C">>, <<"Y", "Y", "G">> >>

TabuExperiments ==
  {[start |-> ACG, length |-> l, WS_cells |-> TabuWS, RY_cells |-> TabuRY] :
     l \in TabuTargets}
  \cup {[start |-> ACG, length |-> 8, WS_cells |-> TabuWS4, RY_cells |-> TabuRY4]}

\* a solution handed to the tabu search: the start followed by the first n
\* cells of the probe, these marked used
RECURSIVE greedy_solution(_, _, _)
greedy_solution(space, cells, n) ==
  IF n = 0 THEN WSRY(space, ACG, cells)
  ELSE LET w == greedy_solution(space, cells, n - 1)
       IN update_depth([w EXCEPT !.path = Append(@, cells[n]),
                                 !.cells_dict = mark_used(@, cells[n])])

InitTabu ==
  /\ component = "tabu"
  /\ p_a = <<>> /\ p_b = <<>> /\ p_op = "off" /\ p_out = Ok(<<>>)
  /\ ex_pc = "off" /\ ex_ret = NoReturn /\ aov = NoAov
  /\ rd \in TabuExperiments
  /\ \E n \in 0..Len(rd.WS_cells) :
       /\ t_ws = greedy_solution("WS", rd.WS_cells, n)
       /\ t_ry = greedy_solution("RY", rd.RY_cells, n)
  /\ t_nb = <<>> /\ t_move = "none" /\ t_exc = NoExc
  /\ tabu_list_ws = <<>> /\ tabu_list_ry = <<>> /\ add_log = <<>>
  /\ neighbours = <<>> /\ ws_paths_set = {} /\ gn_n = 0
  /\ fs_pc = "off" /\ fs_i = 0 /\ kept = <<>>

\* between two calls on the Tabu object
TabuReady == component = "tabu" /\ fs_pc = "off" /\ t_exc = NoExc

\* a move was called on (t_ws, t_ry) and ended with outcome o
Called(move, o) ==
  /\ t_move' = move
  /\ t_ws' = o.in_ws /\ t_ry' = o.in_ry
  /\ t_nb' = o.ret
  /\ t_exc' = o.exc
  /\ UNCHANGED <<component, pure_vars, rd, exact_vars, tabu_list_ws,
                 tabu_list_ry, add_log, neighbours, ws_paths_set, gn_n, fs_pc, fs_i, kept>>

\* lines 274-279
not_used_not_tabu_oligos(w) ==
  LET free(oligo) == ~is_tabu(oligo, tabu_list_ws, tabu_list_ry)
  IN SelectSeq(not_used_oligos(w), free)

insert_oligo ==
  /\ TabuReady
  /\ Len(t_ws.path) < MaxPath
  /\ \E o \in generate_neighbour_insert_oligo(t_ws, t_ry,
                 not_used_not_tabu_oligos(t_ws), not_used_not_tabu_oligos(t_ry)) :
       Called("insert_oligo", o)

delete_oligo ==
  /\ TabuReady
  /\ \E skip_tabu_check \in BOOLEAN :
     \E o \in generate_neighbour_delete_oligo(t_ws, t_ry, skip_tabu_check,
                                              tabu_list_ws, tabu_list_ry) :
       Called("delete_oligo", o)

shift_oligo ==
  /\ TabuReady
  /\ \E o \in generate_neighbour_shift_oligo(t_ws, t_ry, tabu_list_ws, tabu_list_ry) :
       Called("shift_oligo", o)

delete_cluster ==
  /\ TabuReady
  /\ \E o \in generate_neigbour_delete_cluster(t_ws, t_ry) :
       Called("delete_cluster", o)

shift_cluster ==
  /\ TabuReady
  /\ \E o \in generate_neighbour_shift_cluster(t_ws, t_ry) :
       Called("shift_cluster", o)

\* the next move is applied to the pair the last one returned
next_round ==
  /\ TabuReady
  /\ t_nb # <<>>
  /\ t_ws' = t_nb[1] /\ t_ry' = t_nb[2]
  /\ t_nb' = <<>>
  /\ t_move' = "next_round"
  /\ UNCHANGED <<component, pure_vars, rd, exact_vars, t_exc, tabu_list_ws,
                 tabu_list_ry, add_log, neighbours, ws_paths_set, gn_n, fs_pc, fs_i, kept>>

\* Tabu.add with pop() where the code has pop(0): the newest entry goes
added_newest_evicted(list_ws, list_ry, move_ws, move_ry) ==
  LET new_ws == Append(list_ws, move_ws)
      new_ry == Append(list_ry, move_ry)
  IN IF Len(new_ws) > tabu_size
       THEN <<Pop(new_ws, Len(new_ws) - 1), Pop(new_ry, Len(new_ry) - 1)>>
       ELSE <<new_ws, new_ry>>

\* Tabu.add, lines 50-54: the two lists after add(move_ws, move_ry)
added(list_ws, list_ry, move_ws, move_ry) ==
  LET new_ws == Append(list_ws, move_ws)
      new_ry == Append(list_ry, move_ry)
  IN IF Len(new_ws) > tabu_size
       THEN <<Pop(new_ws, 0), Pop(new_ry, 0)>>
       ELSE <<new_ws, new_ry>>

\* Tabu.add, called with a WS cell and the RY cell of the same probe index
add ==
  /\ TabuReady
  /\ \E i \in 1..Len(rd.WS_cells) :
       LET lists == added(tabu_list_ws, tabu_list_ry, rd.WS_cells[i], rd.RY_cells[i])
       IN /\ tabu_list_ws' = lists[1]
          /\ tabu_list_ry' = lists[2]
  /\ UNCHANGED <<component, pure_vars, rd, exact_vars, t_ws, t_ry, t_nb, t_move,
                 t_exc, add_log, neighbours, ws_paths_set, gn_n, fs_pc, fs_i, kept>>

\* a Tabu object on which only add is called, every call logged
InitMemory ==
  /\ component = "memory"
  /\ p_a = <<>> /\ p_b = <<>> /\ p_op = "off" /\ p_out = Ok(<<>>)
  /\ ex_pc = "off" /\ ex_ret = NoReturn /\ aov = NoAov
  /\ rd \in TabuExperiments
  /\ TabuIdle

\* Tabu.add with any WS cell and any RY cell
add_logged ==
  /\ component = "memory"
  /\ Len(add_log) < MaxAdds
  /\ \E i \in 1..Len(rd.WS_cells) : \E j \in 1..Len(rd.RY_cells) :
       LET lists == added(tabu_list_ws, tabu_list_ry, rd.WS_cells[i], rd.RY_cells[j])
       IN /\ tabu_list_ws' = lists[1]
          /\ tabu_list_ry' = lists[2]
          /\ add_log' = Append(add_log, <<rd.WS_cells[i], rd.RY_cells[j]>>)
  /\ UNCHANGED <<component, pure_vars, rd, exact_vars, t_ws, t_ry, t_nb, t_move,
                 t_exc, neighbours, ws_paths_set, gn_n, fs_pc, fs_i, kept>>

NextMemory == add_logged

\* find_solution, lines 325-329, entering generate_neighbours, lines 272-279;
\* best_solution is the pair (t_ws, t_ry)
find_solution ==
  /\ TabuReady
  /\ t_nb = <<>>
  /\ fs_pc' = "generate_neighbours"
  /\ neighbours' = <<>>
  /\ ws_paths_set' = {t_ws.path}
  /\ gn_n' = 0
  /\ t_move' = "find_solution"
  /\ UNCHANGED <<component, pure_vars, rd, exact_vars, t_ws, t_ry, t_nb, t_exc,
                 tabu_list_ws, tabu_list_ry, add_log, fs_i, kept>>

\* line 287
chosen_move == "shift_cluster"

\* line 308 without the look-up in ws_paths_set
is_any_neighbour(neighbour, paths_set) == neighbour # <<>>

\* line 308
is_new_neighbour(neighbour, paths_set) ==
  neighbour # <<>> /\ neighbour[1].path \notin paths_set

\* generate_neighbours: one pass of the loop of lines 281-310
generate_neighbours_loop ==
  /\ component = "tabu" /\ fs_pc = "generate_neighbours"
  /\ gn_n < number_of_neighbours
  /\ chosen_move = "shift_cluster"
  /\ \E o \in generate_neighbour_shift_cluster(t_ws, t_ry) :
       /\ t_ws' = o.in_ws /\ t_ry' = o.in_ry
       /\ t_nb' = o.ret
       /\ t_exc' = o.exc
       /\ IF o.exc # NoExc
            THEN /\ fs_pc' = "diverges"
                 /\ UNCHANGED <<neighbours, ws_paths_set, gn_n>>
            ELSE /\ fs_pc' = fs_pc
                 /\ gn_n' = gn_n + 1
                 /\ IF is_new_neighbour(o.ret, ws_paths_set)
                      THEN /\ ws_paths_set' = ws_paths_set \cup {o.ret[1].path}
                           /\ neighbours' = Append(neighbours, o.ret)
                      ELSE UNCHANGED <<neighbours, ws_paths_set>>
  /\ t_move' = "generate_neighbours"
  /\ UNCHANGED <<component, pure_vars, rd, exact_vars, tabu_list_ws,
                 tabu_list_ry, add_log, fs_i, kept>>

\* generate_neighbours: line 312, back in find_solution at line 330
generate_neighbours_return ==
  /\ component = "tabu" /\ fs_pc = "generate_neighbours"
  /\ gn_n = number_of_neighbours
  /\ fs_pc' = "for"
  /\ fs_i' = 0
  /\ kept' = <<>>
  /\ UNCHANGED <<component, pure_vars, rd, exact_vars, t_ws, t_ry, t_nb, t_move,
                 t_exc, tabu_list_ws, tabu_list_ry, add_log, neighbours, ws_paths_set, gn_n>>

\* lines 332-339: the two tests that skip a neighbour
too_long(neighbour, length) ==
  Len(reconstruct_dna(neighbour[1], neighbour[2])) > length

neighbour_skipped(neighbour, length) ==
  neighbour[1].depth # neighbour[2].depth \/ too_long(neighbour, length)

\* find_solution: one pass of the loop of lines 330-339
find_solution_loop ==
  /\ component = "tabu" /\ fs_pc = "for"
  /\ fs_i < Len(neighbours)
  /\ fs_i' = fs_i + 1
  /\ kept' = IF neighbour_skipped(At(neighbours, fs_i), rd.length)
               THEN kept ELSE Append(kept, At(neighbours, fs_i))
  /\ UNCHANGED <<component, pure_vars, rd, exact_vars, t_ws, t_ry, t_nb, t_move,
                 t_exc, tabu_list_ws, tabu_list_ry, add_log, neighbours, ws_paths_set,
                 gn_n, fs_pc>>

\* find_solution: the loop is over and the method returns
find_solution_return ==
  /\ component = "tabu" /\ fs_pc = "for"
  /\ fs_i = Len(neighbours)
  /\ fs_pc' = "returned"
  /\ UNCHANGED <<component, pure_vars, rd, exact_vars, t_ws, t_ry, t_nb, t_move,
                 t_exc, tabu_list_ws, tabu_list_ry, add_log, neighbours, ws_paths_set,
                 gn_n, fs_i, kept>>

\* find_solution has no return statement: its result is None
find_solution_result == "None"

NextTabu ==
  \/ insert_oligo
  \/ delete_oligo
  \/ shift_oligo
  \/ delete_cluster
  \/ shift_cluster
  \/ next_round
  \/ add
  \/ find_solution
  \/ generate_neighbours_loop
  \/ generate_neighbours_return
  \/ find_solution_loop
  \/ find_solution_return

NoData == [start |-> <<>>, length |-> 0, WS_cells |-> <<>>, RY_cells |-> <<>>]

\* ----------------------------------------------- pure-function inputs
GATTACA == <<"G", "A", "T", "T", "A", "C", "A">>
ACAGGT == <<"A", "C", "A", "G", "G", "T">>
AAAA == <<"A", "A", "A", "A">>
TTTT == <<"T", "T", "T", "T">>

OverlapInputs ==
  (StringsOver({"A", "C"}, 1, MaxOligo) \X StringsOver({"A", "C"}, 1, MaxOligo))
    \cup {<<GATTACA, ACAGGT>>, <<AAAA, TTTT>>}

SequenceInputs == StringsOver(Nucleotides, 1, MaxOligo)

SymbolInputs ==
  StringsOver({"S", "W", "A"}, 1, 2) \X StringsOver({"R", "Y", "A"}, 1, 2)

InitPure ==
  /\ component = "pure"
  /\ rd = NoData /\ ex_pc = "off" /\ ex_ret = NoReturn /\ aov = NoAov
  /\ TabuIdle
  /\ p_op = "none"
  /\ p_out = Ok(<<>>)
  /\ \/ \E pr \in OverlapInputs : p_a = pr[1] /\ p_b = pr[2]
     \/ p_a \in SequenceInputs /\ p_b = <<>>
     \/ \E pr \in SymbolInputs : p_a = pr[1] /\ p_b = pr[2]

\* overlap(a, b) as search_overlapings calls it: probe = len(cell)
ApplyOverlap ==
  /\ component = "pure" /\ p_op = "none"
  /\ <<p_a, p_b>> \in OverlapInputs
  /\ p_op' = "overlap"
  /\ p_out' = OkInt(check_overlap(p_a, p_b, Len(p_b)))
  /\ UNCHANGED <<component, p_a, p_b, rd, exact_vars, tabu_vars>>

\* combine over a zipped pair of reduced strings
ApplyConnect ==
  /\ component = "pure" /\ p_op = "none"
  /\ <<p_a, p_b>> \in SymbolInputs
  /\ p_op' = "connect"
  /\ p_out' = Ok(connect_WS_RY(p_a, p_b))
  /\ UNCHANGED <<component, p_a, p_b, rd, exact_vars, tabu_vars>>

\* reduce to both spaces, then combine position-wise
ApplyRoundTrip ==
  /\ component = "pure" /\ p_op = "none"
  /\ p_a \in SequenceInputs /\ p_b = <<>>
  /\ p_op' = "roundtrip"
  /\ LET ws == convert_oligo("WS", p_a)
         ry == convert_oligo("RY", p_a)
     IN p_out' = IF ws.exc # NoExc THEN ws
                 ELSE IF ry.exc # NoExc THEN ry
                 ELSE Ok(connect_WS_RY(ws.val, ry.val))
  /\ UNCHANGED <<component, p_a, p_b, rd, exact_vars, tabu_vars>>

NextPure == ApplyOverlap \/ ApplyConnect \/ ApplyRoundTrip

Init == InitPure \/ InitExact \/ InitTabu \/ InitMemory
Next == NextPure \/ NextExact \/ NextTabu \/ NextMemory
Spec == Init /\ [][Next]_vars
SpecPure == InitPure /\ [][NextPure]_vars
SpecExact == InitExact /\ [][NextExact]_vars
SpecTabu == InitTabu /\ [][NextTabu]_vars
SpecMemory == InitMemory /\ [][NextMemory]_vars

\* ------------------------------------------------------------- claims
\* C1: for all oligos a and b the overlap routine returns the largest k,
\* 1 <= k < min(len(a), len(b)), whose suffix of a equals the prefix of b,
\* and 0 when there is none (3 for GATTACA / ACAGGT, 0 for AAAA / TTTT).
C1_OverlapIsLongestMatch ==
  p_op = "overlap" => p_out.exc = NoExc /\ p_out.n = overlap(p_a, p_b)

\* C5: reducing a full-alphabet sequence to WS and to RY space and combining
\* the two position-wise gives the sequence back, last nucleotide included.
C5_RoundTrip ==
  p_op = "roundtrip" => p_out.exc = NoExc /\ p_out.val = p_a

\* the four pairings combine resolves
ValidPair(s, r) == s \in {"S", "W"} /\ r \in {"R", "Y"}

\* C6: combine over a pair outside (S,R), (S,Y), (W,R), (W,Y) fails with
\* InconsistentEncoding; the position is never skipped silently.
C6_InvalidPairFails ==
  (p_op = "connect"
     /\ \E i \in 1..Min(Len(p_a), Len(p_b)) : ~ValidPair(p_a[i], p_b[i]))
  => p_out.exc = "InconsistentEncoding"

\* the cells a WSRY state marks used
UsedCells(w) == {c \in DOMAIN w.cells_dict : w.cells_dict[c]}

TrivialInput ==
  Len(rd.start) = rd.length /\ rd.WS_cells = <<>> /\ rd.RY_cells = <<>>

\* C7: with the start oligo as long as the target and both probes empty, the
\* exact search reaches RECONSTRUCTED at once and the reconstructed sequence
\* is the start oligo.
C7_TrivialInputReconstructsStart ==
  (component = "exact" /\ ex_pc = "returned" /\ TrivialInput)
  => /\ ex_ret.kind = "tuple6"
     /\ ex_ret.is_reconstructed
     /\ ex_ret.reconstructed_dna = rd.start

\* C8: with the accumulated length below the target and no candidate cell in
\* one of the probes, the exact search returns without raising and reports
\* failure: the outcome is not reconstructed.
C8_StuckReportsFailure ==
  (component = "exact" /\ ex_pc = "returned"
     /\ ex_ret.reconstructed_dna_length < rd.length
     /\ ex_ret.kind \in {"tuple7", "None"}
     /\ (ex_ret.overlapings_ws = <<>> \/ ex_ret.overlapings_ry = <<>>))
  => ex_ret.kind = "tuple7" /\ ~ex_ret.is_reconstructed

\* C9: every sibling branch of one search state starts from that state's
\* path, depth and used-cell mapping: what one sibling appended or marked
\* used is not there when a later sibling extends.
C9_CopyOnBranch ==
  (component = "exact" /\ ex_pc \in {"aov", "raised", "aov_returned"})
  => /\ Len(aov._ws.path) <= Len(aov.ws.path) + 1
     /\ Len(aov._ry.path) <= Len(aov.ry.path) + 1
     /\ Len(aov._ws.depth) <= Len(aov.ws.depth) + 1
     /\ Len(aov._ry.depth) <= Len(aov.ry.depth) + 1
     /\ Cardinality(UsedCells(aov._ws) \ UsedCells(aov.ws)) <= 1
     /\ Cardinality(UsedCells(aov._ry) \ UsedCells(aov.ry)) <= 1

\* the cells of a path: everything after the start oligo
PathCells(w) == SubSeq(w.path, 2, Len(w.path))

NoCellTwice(w) ==
  \A i, j \in 1..Len(PathCells(w)) : i # j => PathCells(w)[i] # PathCells(w)[j]

GreedySolutions ==
  {<<greedy_solution("WS", rd.WS_cells, n), greedy_solution("RY", rd.RY_cells, n)>> :
     n \in 0..Len(rd.WS_cells)}

\* C2: after any sequence of tabu moves, each applied to the pair returned
\* before, every returned candidate pair has ws.depth[i] = ry.depth[i] at
\* every index i.
C2_DepthsAgree ==
  component = "tabu" =>
    /\ t_nb # <<>> => t_nb[1].depth = t_nb[2].depth
    /\ \A i \in 1..Len(neighbours) : neighbours[i][1].depth = neighbours[i][2].depth

\* a candidate returned by a move on a pair that an earlier move returned
C2_Witness ==
  /\ component = "tabu" /\ t_nb # <<>>
  /\ t_move \in {"insert_oligo", "delete_oligo", "shift_oligo",
                 "delete_cluster", "shift_cluster"}
  /\ <<t_ws, t_ry>> \notin GreedySolutions
  /\ Len(t_nb[1].depth) >= 3

\* C3: no probe cell appears twice in the path of a neighbour a move
\* generates, also when moves are applied round after round: an oligo
\* inserted in an earlier round is not offered for insertion again while it
\* is in the path.
C3_NoCellTwice ==
  (component = "tabu" /\ t_nb # <<>>)
  => NoCellTwice(t_nb[1]) /\ NoCellTwice(t_nb[2])

\* C4: the exact search extends by a cell pair only when the accumulated
\* length plus (len(cell) - overlap) is at most the target, so the length of
\* an extended candidate never exceeds the target; every neighbour the tabu
\* driver keeps renders to at most the target length.
C4_LengthWithinTarget ==
  /\ (component = "exact" /\ aov.branches >= 1)
       => /\ aov.reconstructed_dna_length <= rd.length
          /\ Len(aov._ws.start_converted) <= rd.length
          /\ Len(aov._ry.start_converted) <= rd.length
  /\ component = "tabu"
       => \A i \in 1..Len(kept) :
            Len(reconstruct_dna(kept[i][1], kept[i][2])) <= rd.length

\* the driver kept a neighbour that renders to exactly the target length
C4_Witness ==
  /\ component = "tabu" /\ fs_pc = "returned"
  /\ kept # <<>>
  /\ Len(reconstruct_dna(kept[1][1], kept[1][2])) = rd.length

\* the calls of the five moves and of generate_neighbours, as t_move names them
TabuCalls ==
  {"insert_oligo", "delete_oligo", "shift_oligo", "delete_cluster",
   "shift_cluster", "generate_neighbours"}

\* C10: each of the five moves, and generate_neighbours as a whole, leaves
\* the input WS and RY path states as they were: path, depth and used-cell
\* mapping are the same after the call, candidate or not.
C10_InputsUnchanged ==
  [][(component = "tabu" /\ t_move' \in TabuCalls)
       => (t_ws' = t_ws /\ t_ry' = t_ry)]_vars

\* generate_neighbours returned a neighbour, and a move returned a candidate
C10_Witness ==
  /\ component = "tabu" /\ fs_pc = "for" /\ neighbours # <<>>
  /\ t_move = "generate_neighbours"
  /\ Len(t_ws.path) >= 3

\* the last n entries of a list
LastN(s, n) == SubSeq(s, Len(s) - Min(n, Len(s)) + 1, Len(s))

in_tabu_memory(lists, oligo) == oligo \in Range(lists[1]) \cup Range(lists[2])

\* no member of the block of n elements after 0-based position idx - 1 of
\* either path is in the tabu memory
BlockFree(lists, ws, ry, idx, n) ==
  \A k \in (idx + 1)..(idx + n) :
    ~in_tabu_memory(lists, ws.path[k]) /\ ~in_tabu_memory(lists, ry.path[k])

\* s with block put in after its first i elements
WithBlock(s, i, block) == SubSeq(s, 1, i) \o block \o SubSeq(s, i + 1, Len(s))

\* s without the n elements after its first idx elements
WithoutBlock(s, idx, n) == SubSeq(s, 1, idx) \o SubSeq(s, idx + n + 1, Len(s))

\* the candidate nb can be read as the pair (ws, ry) with a block that has no
\* tabu member removed, displaced or inserted
RespectsTabu(lists, ws, ry, nb) ==
  \/ \E idx \in 1..(Len(ws.path) - 1) : \E n \in 1..(Len(ws.path) - idx) :
       /\ BlockFree(lists, ws, ry, idx, n)
       /\ \E i \in 0..(Len(ws.path) - n) :
            /\ nb[1].path \in {WithoutBlock(ws.path, idx, n),
                  WithBlock(WithoutBlock(ws.path, idx, n), i, SubSeq(ws.path, idx + 1, idx + n))}
            /\ nb[2].path \in {WithoutBlock(ry.path, idx, n),
                  WithBlock(WithoutBlock(ry.path, idx, n), i, SubSeq(ry.path, idx + 1, idx + n))}
            /\ Len(nb[1].path) = Len(nb[2].path)
  \/ \E i \in 1..Len(ws.path) : \E c \in 1..Len(rd.WS_cells) : \E e \in 1..Len(rd.RY_cells) :
       /\ ~in_tabu_memory(lists, rd.WS_cells[c])
       /\ ~in_tabu_memory(lists, rd.RY_cells[e])
       /\ nb[1].path = WithBlock(ws.path, i, <<rd.WS_cells[c]>>)
       /\ nb[2].path = WithBlock(ry.path, i, <<rd.RY_cells[e]>>)

\* C12: no move produces a candidate by removing, displacing or inserting an
\* oligo (WS or RY) that is in the tabu memory at the time of the call; this
\* covers every member of a cluster the cluster moves remove or shift.
C12_NoTabuOligoMoved ==
  [][(component = "tabu" /\ t_nb' # <<>> /\ <<t_move', t_nb'>> # <<t_move, t_nb>>)
       => RespectsTabu(<<tabu_list_ws, tabu_list_ry>>, t_ws, t_ry, t_nb')]_vars

\* a neighbour that renders to exactly the target length
ExactLength(neighbour) ==
  Len(reconstruct_dna(neighbour[1], neighbour[2])) = rd.length

\* C13: the tabu driver always terminates, after at most
\* number_of_iterations rounds: it never enters a loop that cannot end, and
\* when it returns it reports success if a candidate's reconstructed length
\* equals the target and an Incomplete best-effort result otherwise.
C13_DriverTerminates ==
  component = "tabu" =>
    /\ fs_pc # "diverges"
    /\ fs_pc = "returned" =>
         find_solution_result =
           IF \E i \in 1..Len(kept) : ExactLength(kept[i])
             THEN "Success" ELSE "Incomplete"

\* C14: generate_neighbours returns at most number_of_neighbours candidates,
\* no two of them with the same path sequence and none with the path
\* sequence of the input solution.
C14_NeighboursDistinct ==
  component = "tabu" =>
    /\ Len(neighbours) <= number_of_neighbours
    /\ \A i, j \in 1..Len(neighbours) :
         i # j => neighbours[i][1].path # neighbours[j][1].path
    /\ fs_pc # "off" =>
         \A i \in 1..Len(neighbours) : neighbours[i][1].path # t_ws.path

\* generate_neighbours returned fewer neighbours than it generated: a
\* repeated candidate was discarded
C14_Witness ==
  /\ component = "tabu" /\ fs_pc = "for" /\ gn_n = number_of_neighbours
  /\ neighbours # <<>> /\ Len(neighbours) < gn_n
  /\ t_nb # <<>>

\* the n elements after the first idx of w's path are a maximal run of
\* depth = perfect_overlap
MaximalRun(w, idx, n) ==
  /\ \A k \in (idx + 1)..(idx + n) : w.depth[k] = perfect_overlap(w)
  /\ w.depth[idx] # perfect_overlap(w)
  /\ idx + n = Len(w.path) \/ w.depth[idx + n + 1] # perfect_overlap(w)

\* C15: whenever delete_cluster produces a candidate, the removed elements
\* are exactly the members of one maximal contiguous run of indices with
\* depth = perfect_overlap, never a subset of it and never an element
\* outside, and the remaining oligos keep their order in both paths.
C15_ClusterAtomicity ==
  (component = "tabu" /\ t_move = "delete_cluster" /\ t_nb # <<>>)
  => \E idx \in 1..(Len(t_ws.path) - 1) : \E n \in 1..(Len(t_ws.path) - idx) :
       /\ MaximalRun(t_ws, idx, n)
       /\ t_nb[1].path = WithoutBlock(t_ws.path, idx, n)
       /\ t_nb[2].path = WithoutBlock(t_ry.path, idx, n)

\* a run of three removed as a whole
C15_Witness ==
  /\ component = "tabu" /\ t_move = "delete_cluster" /\ t_nb # <<>>
  /\ \E idx \in 1..(Len(t_ws.path) - 3) :
       /\ MaximalRun(t_ws, idx, 3)
       /\ t_nb[1].path = WithoutBlock(t_ws.path, idx, 3)

\* C16: every candidate the insert-oligo move produces has a nonzero
\* recomputed depth between the inserted oligo and the element before it; a
\* candidate with depth 0 there is rejected, not returned.
C16_InsertOverlapNonzero ==
  (component = "tabu" /\ t_move = "insert_oligo" /\ t_nb # <<>>)
  => \E i \in 1..Len(t_ws.path) :
       /\ t_ws.path = WithoutBlock(t_nb[1].path, i, 1)
       /\ t_ry.path = WithoutBlock(t_nb[2].path, i, 1)
       /\ t_nb[1].depth[i + 1] # 0
       /\ t_nb[2].depth[i + 1] # 0

\* the reduction of the starting oligo in a space
StartReduction(space) == convert_oligo(space, rd.start).val

\* a WS and an RY path state whose path[0] is the start's reduction
StartFirst(ws, ry) ==
  /\ ws.path # <<>> /\ ws.path[1] = StartReduction("WS")
  /\ ry.path # <<>> /\ ry.path[1] = StartReduction("RY")

\* C17: path[0] is always the starting oligo's reduction: after any
\* sequence of exact-search extensions and of tabu moves index 0 of both
\* paths is unchanged; no move inserts before it or removes it.
C17_StartStaysFirst ==
  /\ (component = "exact" /\ ex_pc # "main")
       => /\ StartFirst(ex_ret.ws, ex_ret.ry)
          /\ ex_pc \in {"aov", "raised", "aov_returned"}
               => StartFirst(aov.ws, aov.ry) /\ StartFirst(aov._ws, aov._ry)
  /\ component = "tabu"
       => /\ StartFirst(t_ws, t_ry)
          /\ t_nb # <<>> => StartFirst(t_nb[1], t_nb[2])
          /\ \A i \in 1..Len(neighbours) :
               StartFirst(neighbours[i][1], neighbours[i][2])

\* a shifted cluster now follows the start, in the second round or later
C17_Witness ==
  /\ component = "tabu" /\ t_move = "shift_cluster" /\ t_nb # <<>>
  /\ t_nb[1].path[2] # t_ws.path[2]
  /\ <<t_ws, t_ry>> \notin GreedySolutions

\* C18: len(path) == len(depth) for the WS and the RY state in every state
\* reached: initially, after every extension of the exact search, and in the
\* inputs, the returned candidate and the kept neighbours of the tabu moves.
SameLength(w) == Len(w.path) = Len(w.depth)

C18_PathDepthSameLength ==
  /\ (component = "exact" /\ ex_pc # "main")
       => /\ SameLength(ex_ret.ws) /\ SameLength(ex_ret.ry)
          /\ ex_pc \in {"aov", "raised", "aov_returned"}
               => /\ SameLength(aov.ws) /\ SameLength(aov.ry)
                  /\ SameLength(aov._ws) /\ SameLength(aov._ry)
  /\ component = "tabu"
       => /\ SameLength(t_ws) /\ SameLength(t_ry)
          /\ t_nb # <<>> => SameLength(t_nb[1]) /\ SameLength(t_nb[2])
          /\ \A i \in 1..Len(neighbours) :
               SameLength(neighbours[i][1]) /\ SameLength(neighbours[i][2])

\* the exact search has extended both paths twice
C18_Witness ==
  /\ component = "exact" /\ ex_pc \in {"aov", "raised", "aov_returned"}
  /\ Len(aov._ws.path) = 3 /\ Len(aov._ws.depth) = 3
  /\ Len(aov._ry.path) = 3 /\ Len(aov._ry.depth) = 3

\* C19: in the exact search a probe cell is consumed at most once per path:
\* an extension with a cell whose used flag is already set fails with
\* CellAlreadyUsed instead of appending the cell a second time, so no cell
\* occurs twice in the extended WS or RY path.
C19_CellConsumedOnce ==
  (component = "exact" /\ ex_pc \in {"aov", "raised", "aov_returned"})
  => NoCellTwice(aov._ws) /\ NoCellTwice(aov._ry)

\* the number of positions of s that hold x
Count(s, x) == Cardinality({k \in 1..Len(s) : s[k] = x})

SameOligos(s, t) == \A x \in Range(s) \cup Range(t) : Count(s, x) = Count(t, x)

\* C20: whenever shift_cluster produces a candidate, both paths hold exactly
\* the oligos of the input (nothing lost or duplicated), the removed cluster
\* block is put back contiguously in its internal order at an index other
\* than the one it was removed from, and the WS and RY oligos that shared an
\* index before the move share an index after it (the same block, from the
\* same position to the same position, in both paths).
C20_ShiftClusterPermutes ==
  (component = "tabu" /\ t_move = "shift_cluster" /\ t_nb # <<>>)
  => /\ SameOligos(t_nb[1].path, t_ws.path)
     /\ SameOligos(t_nb[2].path, t_ry.path)
     /\ \E idx \in 1..(Len(t_ws.path) - 1) : \E n \in 1..(Len(t_ws.path) - idx) :
        \E i \in (1..(Len(t_ws.path) - n)) \ {idx} :
          /\ MaximalRun(t_ws, idx, n)
          /\ t_nb[1].path = WithBlock(WithoutBlock(t_ws.path, idx, n), i,
                                      SubSeq(t_ws.path, idx + 1, idx + n))
          /\ t_nb[2].path = WithBlock(WithoutBlock(t_ry.path, idx, n), i,
                                      SubSeq(t_ry.path, idx + 1, idx + n))

\* a block of two moved towards the end of a path of four
C20_Witness ==
  /\ component = "tabu" /\ t_move = "shift_cluster" /\ t_nb # <<>>
  /\ Len(t_ws.path) = 4
  /\ \E idx \in 1..2 :
       /\ MaximalRun(t_ws, idx, 2)
       /\ t_nb[1].path = WithBlock(WithoutBlock(t_ws.path, idx, 2), idx + 1,
                                   SubSeq(t_ws.path, idx + 1, idx + 2))
       /\ t_nb[2].path = WithBlock(WithoutBlock(t_ry.path, idx, 2), idx + 1,
                                   SubSeq(t_ry.path, idx + 1, idx + 2))
       /\ t_nb[1].path # t_ws.path

\* C21: the shift-cluster move always terminates, with a candidate or with
\* no candidate, for every input path, also for a path that is the start
\* oligo followed by one cluster only, where after the removal the only
\* insertion index is the one the cluster was removed from.
C21_ShiftClusterTerminates ==
  (component = "tabu" /\ t_move = "shift_cluster") => t_exc # "diverges"

\* C22: delete-oligo and shift-oligo applied to a path that holds only the
\* starting oligo yield the empty result without raising an error, and on a
\* longer path the position they pick is in 1..len(path)-1 and not in a
\* cluster interior, so the candidate is the input without, or with a
\* displaced, oligo of such a position.
C22_OligoMovesOnStartOnly ==
  (component = "tabu" /\ t_move \in {"delete_oligo", "shift_oligo"})
  => /\ t_exc = NoExc
     /\ Len(t_ws.path) = 1 => t_nb = <<>>
     /\ t_nb # <<>> =>
          \E idx \in 1..(Len(t_ws.path) - 1) :
            /\ ~inside_cluster_oligo(t_ws, idx)
            /\ \E i \in 1..(Len(t_ws.path) - 1) :
                 t_nb[1].path \in {WithoutBlock(t_ws.path, idx, 1),
                                   WithBlock(WithoutBlock(t_ws.path, idx, 1), i,
                                             <<t_ws.path[idx + 1]>>)}

====
